---- MODULE Spec2Model ----
(***************************************************************************)
(* State-machine model of the Spline tool                                  *)
(* (editor/src/messages/tool/tool_messages/spline_tool.rs).                *)
(*                                                                         *)
(* The tool is a two-state FSM (Ready, Drawing) that owns a SplineToolData *)
(* session and emits messages ("responses") to the document.  One action   *)
(* of the model is one message handled by SplineTool::process_message:     *)
(* the transition arm, the helper functions it calls (update_spline,       *)
(* delete_preview), the hint/cursor refresh of a state change, and the     *)
(* application of the emitted messages by the document, in emission order. *)
(***************************************************************************)
EXTENDS Integers, Sequences, FiniteSets, TLC

(* ------------------------------ bounds --------------------------------- *)

\* The pointer moves along the line y = 0, over x in 0..MaxCoord.
MaxCoord == 2
\* The canvas is panned by CanvasOffset units along x.
CanvasOffset == 1
\* At most MaxIds point ids are generated in a run.
MaxIds == 3
\* At most MaxLayers layers are created in a run.
MaxLayers == 2

(* --------------------------- program constants ------------------------- *)

\* use crate::consts::{DEFAULT_STROKE_WIDTH, DRAG_THRESHOLD}
DRAG_THRESHOLD == 1
DEFAULT_STROKE_WIDTH == 2

(* ------------------------------ values --------------------------------- *)

\* enum SplineToolFsmState
FsmStates == {"Ready", "Drawing"}

\* Option<T>
None == << >>
Some(x) == << x >>

\* input.mouse.position, in viewport space
MousePositions == (0 .. MaxCoord) \X {0}

\* The line weights the options widget may send.
LineWeights == {DEFAULT_STROKE_WIDTH - 1, DEFAULT_STROKE_WIDTH}

\* global_tool_data.primary_color and secondary_color
WorkingColors == { << "black", "white" >>, << "white", "black" >> }

\* DVec2::distance, squared
DistanceSquared(a, b) ==
    (a[1] - b[1]) * (a[1] - b[1]) + (a[2] - b[2]) * (a[2] - b[2])

\* The pointer is outside the viewport when it is on or beyond its right edge.
OutsideViewport(mouse) == mouse[1] >= MaxCoord

\* transform.inverse().transform_point2(p), where the transform
\* document.metadata().transform_to_viewport(layer) is the translation by the
\* canvas pan (offset), along x
ToLayerSpace(offset, mouse) == << mouse[1] - offset, mouse[2] >>

(* ------------------------------ messages ------------------------------- *)

StartTransaction == [op |-> "StartTransaction"]
EndTransaction == [op |-> "EndTransaction"]
AbortTransaction == [op |-> "AbortTransaction"]
DeselectAllLayers == [op |-> "DeselectAllLayers"]
StartBuffer == [op |-> "StartBuffer"]
NewCustomLayer(layer) == [op |-> "NewCustomLayer", layer |-> layer]
StrokeSet(layer, weight) == [op |-> "StrokeSet", layer |-> layer, weight |-> weight]
InsertPoint(layer, id, position) ==
    [op |-> "InsertPoint", layer |-> layer, id |-> id, position |-> position]
InsertSegment(layer, id, points) ==
    [op |-> "InsertSegment", layer |-> layer, id |-> id, points |-> points]
RemovePoint(layer, id) == [op |-> "RemovePoint", layer |-> layer, id |-> id]
RemoveSegment(layer, id) == [op |-> "RemoveSegment", layer |-> layer, id |-> id]
UpdateInputHints(state) == [op |-> "UpdateInputHints", state |-> state]
UpdateMouseCursor == [op |-> "UpdateMouseCursor"]
SubscribeEvent == [op |-> "SubscribeEvent"]
UnsubscribeEvent == [op |-> "UnsubscribeEvent"]
CanvasPan == [op |-> "CanvasPan"]
UpdateOptionsWorkingColors == [op |-> "UpdateOptions", action |-> "WorkingColors"]
SendLayout == [op |-> "SendLayout"]

VectorOps == {"InsertPoint", "InsertSegment", "RemovePoint", "RemoveSegment"}

(* ------------------------------- state --------------------------------- *)

VARIABLES
    fsm_state,      \* SplineTool.fsm_state: "Ready" or "Drawing"
    tool_data,      \* SplineTool.tool_data: the SplineToolData record
    options,        \* SplineTool.options
    document,       \* the document store the responses are applied to
    responses,      \* the messages emitted by the handler of the last event
    untracked,      \* a vector edit of the last handler met no open transaction
    nextPointId,    \* PointId::generate()
    nextSegmentId,  \* SegmentId::generate()
    nextLayerId     \* NodeId::new()

vars == << fsm_state, tool_data, options, document, responses, untracked,
           nextPointId, nextSegmentId, nextLayerId >>

(* ------------------------ SplineToolData, options ---------------------- *)

\* #[derive(Default)] SplineToolData
DefaultToolData ==
    [ points          |-> << >>,
      next_point      |-> << 0, 0 >>,
      preview_point   |-> None,
      preview_segment |-> None,
      weight          |-> 0,
      layer           |-> None,
      auto_panning    |-> FALSE ]

\* impl Default for SplineOptions (the fill and stroke colour options are
\* widgets' state and are left out)
DefaultOptions == [ line_weight |-> DEFAULT_STROKE_WIDTH ]

\* What a helper or a transition arm returns: the session and what it emitted.
Out(td, msgs) == [tool_data |-> td, responses |-> msgs]

(* --------------------------- faulty variants --------------------------- *)
(* Variants of the definitions below with one plausible slip each; the     *)
(* properties at the end are each violated by one of them.                 *)

\* delete_preview that forgets to clear preview_segment
delete_preview_keeps_segment(td) ==
    IF td.layer = None
    THEN Out(td, << >>)
    ELSE LET layer == td.layer[1]
             point == IF td.preview_point # None
                      THEN << RemovePoint(layer, td.preview_point[1]) >>
                      ELSE << >>
             segment == IF td.preview_segment # None
                        THEN << RemoveSegment(layer, td.preview_segment[1]) >>
                        ELSE << >>
         IN  Out([td EXCEPT !.preview_point = None], point \o segment)

\* delete_preview that leaves the preview segment in the document
delete_preview_point_only(td) ==
    IF td.layer = None
    THEN Out(td, << >>)
    ELSE LET layer == td.layer[1]
             point == IF td.preview_point # None
                      THEN << RemovePoint(layer, td.preview_point[1]) >>
                      ELSE << >>
         IN  Out([td EXCEPT !.preview_point = None, !.preview_segment = None], point)

\* delete_preview that removes the preview but does not forget its point
delete_preview_keeps_point(td) ==
    IF td.layer = None
    THEN Out(td, << >>)
    ELSE LET layer == td.layer[1]
             point == IF td.preview_point # None
                      THEN << RemovePoint(layer, td.preview_point[1]) >>
                      ELSE << >>
             segment == IF td.preview_segment # None
                        THEN << RemoveSegment(layer, td.preview_segment[1]) >>
                        ELSE << >>
         IN  Out([td EXCEPT !.preview_segment = None], point \o segment)

(* ----------------------------- delete_preview -------------------------- *)

delete_preview(td) ==
    IF td.layer = None
    THEN Out(td, << >>)
    ELSE LET layer == td.layer[1]
             point == IF td.preview_point # None
                      THEN << RemovePoint(layer, td.preview_point[1]) >>
                      ELSE << >>
             segment == IF td.preview_segment # None
                        THEN << RemoveSegment(layer, td.preview_segment[1]) >>
                        ELSE << >>
         IN  Out([td EXCEPT !.preview_point = None, !.preview_segment = None],
                 point \o segment)

\* update_spline that names the segment's endpoints in the other order
update_spline_swapped(td, show_preview, next_point_id, segment_id) ==
    LET deleted == delete_preview(td)
        t0 == deleted.tool_data
    IN  IF t0.layer = None
        THEN deleted
        ELSE LET layer == t0.layer[1]
                 next_point_pos == t0.next_point
                 has_last == t0.points # << >>
                 last_point_id == t0.points[Len(t0.points)].id
                 insert_point == << InsertPoint(layer, next_point_id, next_point_pos) >>
                 insert_segment ==
                     IF has_last
                     THEN << InsertSegment(layer, segment_id,
                                           << next_point_id, last_point_id >>) >>
                     ELSE << >>
                 t1 == IF has_last /\ show_preview
                       THEN [t0 EXCEPT !.preview_segment = Some(segment_id)]
                       ELSE t0
                 t2 == IF show_preview
                       THEN [t1 EXCEPT !.preview_point = Some(next_point_id)]
                       ELSE [t1 EXCEPT !.points =
                                Append(@, [id |-> next_point_id, pos |-> next_point_pos])]
             IN  Out(t2, deleted.responses \o insert_point \o insert_segment)

\* update_spline that records the point as committed in preview mode too
update_spline_always_pushes(td, show_preview, next_point_id, segment_id) ==
    LET deleted == delete_preview(td)
        t0 == deleted.tool_data
    IN  IF t0.layer = None
        THEN deleted
        ELSE LET layer == t0.layer[1]
                 next_point_pos == t0.next_point
                 has_last == t0.points # << >>
                 last_point_id == t0.points[Len(t0.points)].id
                 insert_point == << InsertPoint(layer, next_point_id, next_point_pos) >>
                 insert_segment ==
                     IF has_last
                     THEN << InsertSegment(layer, segment_id,
                                           << last_point_id, next_point_id >>) >>
                     ELSE << >>
                 t1 == IF has_last /\ show_preview
                       THEN [t0 EXCEPT !.preview_segment = Some(segment_id)]
                       ELSE t0
                 t2 == [t1 EXCEPT !.preview_point =
                                      IF show_preview THEN Some(next_point_id) ELSE @,
                                  !.points =
                                      Append(@, [id |-> next_point_id, pos |-> next_point_pos])]
             IN  Out(t2, deleted.responses \o insert_point \o insert_segment)

\* update_spline that does not retract the previous preview first
update_spline_no_retract(td, show_preview, next_point_id, segment_id) ==
    IF td.layer = None
    THEN Out(td, << >>)
    ELSE LET layer == td.layer[1]
             has_last == td.points # << >>
             insert_point == << InsertPoint(layer, next_point_id, td.next_point) >>
             insert_segment ==
                 IF has_last
                 THEN << InsertSegment(layer, segment_id,
                            << td.points[Len(td.points)].id, next_point_id >>) >>
                 ELSE << >>
             t1 == IF has_last /\ show_preview
                   THEN [td EXCEPT !.preview_segment = Some(segment_id)]
                   ELSE td
             t2 == IF show_preview
                   THEN [t1 EXCEPT !.preview_point = Some(next_point_id)]
                   ELSE [t1 EXCEPT !.points =
                            Append(@, [id |-> next_point_id, pos |-> td.next_point])]
         IN  Out(t2, insert_point \o insert_segment)

\* update_spline that records the segment as the preview when committing too
update_spline_records_segment(td, show_preview, next_point_id, segment_id) ==
    LET deleted == delete_preview(td)
        t0 == deleted.tool_data
    IN  IF t0.layer = None
        THEN deleted
        ELSE LET layer == t0.layer[1]
                 has_last == t0.points # << >>
                 insert_point == << InsertPoint(layer, next_point_id, t0.next_point) >>
                 insert_segment ==
                     IF has_last
                     THEN << InsertSegment(layer, segment_id,
                                << t0.points[Len(t0.points)].id, next_point_id >>) >>
                     ELSE << >>
                 t1 == IF has_last
                       THEN [t0 EXCEPT !.preview_segment = Some(segment_id)]
                       ELSE t0
                 t2 == IF show_preview
                       THEN [t1 EXCEPT !.preview_point = Some(next_point_id)]
                       ELSE [t1 EXCEPT !.points =
                                Append(@, [id |-> next_point_id, pos |-> t0.next_point])]
             IN  Out(t2, deleted.responses \o insert_point \o insert_segment)

(* ----------------------------- update_spline --------------------------- *)

\* next_point_id and segment_id are the ids PointId::generate() and
\* SegmentId::generate() would return.
update_spline(td, show_preview, next_point_id, segment_id) ==
    LET deleted == delete_preview(td)
        t0 == deleted.tool_data
    IN  IF t0.layer = None
        THEN deleted
        ELSE LET layer == t0.layer[1]
                 next_point_pos == t0.next_point
                 has_last == t0.points # << >>
                 last_point_id == t0.points[Len(t0.points)].id
                 insert_point == << InsertPoint(layer, next_point_id, next_point_pos) >>
                 insert_segment ==
                     IF has_last
                     THEN << InsertSegment(layer, segment_id,
                                           << last_point_id, next_point_id >>) >>
                     ELSE << >>
                 t1 == IF has_last /\ show_preview
                       THEN [t0 EXCEPT !.preview_segment = Some(segment_id)]
                       ELSE t0
                 t2 == IF show_preview
                       THEN [t1 EXCEPT !.preview_point = Some(next_point_id)]
                       ELSE [t1 EXCEPT !.points =
                                Append(@, [id |-> next_point_id, pos |-> next_point_pos])]
             IN  Out(t2, deleted.responses \o insert_point \o insert_segment)

(* ------------------------------ AutoPanning ---------------------------- *)

\* AutoPanning::start / AutoPanning::stop: (un)subscribe the pair
\* [PointerOutsideViewport, PointerMove] from the animation-frame broadcast.
auto_panning_start(td) ==
    IF td.auto_panning
    THEN Out(td, << >>)
    ELSE Out([td EXCEPT !.auto_panning = TRUE], << SubscribeEvent >>)

auto_panning_stop(td) ==
    IF td.auto_panning
    THEN Out([td EXCEPT !.auto_panning = FALSE], << UnsubscribeEvent >>)
    ELSE Out(td, << >>)

\* AutoPanning::setup_by_mouse_position
setup_by_mouse_position(td, mouse) ==
    IF OutsideViewport(mouse) THEN auto_panning_start(td) ELSE auto_panning_stop(td)

\* AutoPanning::shift_viewport: pans the canvas when a schedule is pending and
\* the pointer is outside the viewport.
ShiftsViewport(td, mouse) == td.auto_panning /\ OutsideViewport(mouse)

shift_viewport(td, mouse) ==
    IF ShiftsViewport(td, mouse) THEN Out(td, << CanvasPan >>) ELSE Out(td, << >>)

(* ---------------------------- document store --------------------------- *)

\* What a transaction saves and restores.
Content(doc) == [layers |-> doc.layers, points |-> doc.points, segments |-> doc.segments]

EmptyDocument ==
    [ layers |-> {}, points |-> {}, segments |-> {}, open |-> FALSE, saved |-> None ]

\* The document's handling of one message.  The vector edits are idempotent by
\* id; the messages of other handlers leave the vector content alone.  The
\* content is kept by identity: which points and segments each layer holds.
Apply(doc, msg) ==
    CASE msg.op = "StartTransaction" ->
            [doc EXCEPT !.open = TRUE, !.saved = Some(Content(doc))]
      [] msg.op = "EndTransaction" ->
            [doc EXCEPT !.open = FALSE, !.saved = None]
      [] msg.op = "AbortTransaction" ->
            IF doc.open
            THEN [ layers   |-> doc.saved[1].layers,
                   points   |-> doc.saved[1].points,
                   segments |-> doc.saved[1].segments,
                   open     |-> FALSE,
                   saved    |-> None ]
            ELSE doc
      [] msg.op = "NewCustomLayer" ->
            [doc EXCEPT !.layers = @ \cup {msg.layer}]
      [] msg.op = "InsertPoint" ->
            IF \E p \in doc.points : p.id = msg.id
            THEN doc
            ELSE [doc EXCEPT !.points = @ \cup
                    {[id |-> msg.id, layer |-> msg.layer]}]
      [] msg.op = "RemovePoint" ->
            [doc EXCEPT !.points = {p \in @ : p.id # msg.id}]
      [] msg.op = "InsertSegment" ->
            IF \E g \in doc.segments : g.id = msg.id
            THEN doc
            ELSE [doc EXCEPT !.segments = @ \cup
                    {[id |-> msg.id, layer |-> msg.layer, points |-> msg.points]}]
      [] msg.op = "RemoveSegment" ->
            [doc EXCEPT !.segments = {g \in @ : g.id # msg.id}]
      [] OTHER -> doc

\* The document after the messages are applied in emission order.
RECURSIVE ApplyAll(_, _)
ApplyAll(doc, msgs) ==
    IF msgs = << >> THEN doc ELSE ApplyAll(Apply(doc, Head(msgs)), Tail(msgs))

\* Some vector edit among the messages is applied while no transaction is open.
RECURSIVE Untracked(_, _)
Untracked(doc, msgs) ==
    IF msgs = << >>
    THEN FALSE
    ELSE \/ (Head(msgs).op \in VectorOps /\ ~doc.open)
         \/ Untracked(Apply(doc, Head(msgs)), Tail(msgs))

\* How many messages of the kind are among the messages.
RECURSIVE Count(_, _)
Count(msgs, op) ==
    IF msgs = << >>
    THEN 0
    ELSE (IF Head(msgs).op = op THEN 1 ELSE 0) + Count(Tail(msgs), op)

(* --------------------- SplineToolFsmState::transition ------------------ *)

\* What a transition arm returns: the next state, the session, the messages.
Arm(state, out) ==
    [state |-> state, tool_data |-> out.tool_data, responses |-> out.responses]

\* (Ready, DragStart)
TransitionDragStart(td, opts, layer) ==
    LET t1 == [td EXCEPT !.weight = opts.line_weight]
        t2 == [t1 EXCEPT !.layer = Some(layer)]
    IN  Arm("Drawing",
            Out(t2, << StartTransaction, DeselectAllLayers, NewCustomLayer(layer),
                       StrokeSet(layer, t1.weight), StartBuffer >>))

\* The adoption test with the threshold itself counted as exceeding
ExceedsDragThreshold_at_least(td, pos) ==
    \/ td.points = << >>
    \/ DistanceSquared(td.points[Len(td.points)].pos, pos) >= DRAG_THRESHOLD * DRAG_THRESHOLD

\* (Drawing, DragStop): the test that adopts the pointer as the next point
ExceedsDragThreshold(td, pos) ==
    \/ td.points = << >>
    \/ DistanceSquared(td.points[Len(td.points)].pos, pos) > DRAG_THRESHOLD * DRAG_THRESHOLD

\* (Drawing, DragStop)
TransitionDragStop(td, mouse, offset, next_point_id, segment_id) ==
    IF td.layer = None
    THEN Arm("Ready", Out(td, << EndTransaction >>))
    ELSE LET pos == ToLayerSpace(offset, mouse)
             t1 == IF ExceedsDragThreshold(td, pos)
                   THEN [td EXCEPT !.next_point = pos]
                   ELSE td
             updated == update_spline(t1, FALSE, next_point_id, segment_id)
         IN  Arm("Drawing",
                 Out(updated.tool_data, << EndTransaction >> \o updated.responses))

\* (Drawing, PointerMove)
TransitionPointerMove(td, mouse, offset, next_point_id, segment_id) ==
    IF td.layer = None
    THEN Arm("Ready", Out(td, << >>))
    ELSE LET pos == ToLayerSpace(offset, mouse)
             t1 == [td EXCEPT !.next_point = pos]
             updated == update_spline(t1, TRUE, next_point_id, segment_id)
             panning == setup_by_mouse_position(updated.tool_data, mouse)
         IN  Arm("Drawing",
                 Out(panning.tool_data, updated.responses \o panning.responses))

\* (Drawing, PointerOutsideViewport) that falls back to Ready
TransitionOutsideDrawing_to_ready(td, mouse) ==
    Arm("Ready", shift_viewport(td, mouse))

\* (Drawing, PointerOutsideViewport) that cancels the schedule
TransitionOutsideDrawing_stops(td, mouse) ==
    Arm("Drawing", auto_panning_stop(td))

\* (Drawing, PointerOutsideViewport)
TransitionOutsideDrawing(td, mouse) ==
    Arm("Drawing", shift_viewport(td, mouse))

\* (state, PointerOutsideViewport) that leaves the schedule pending
TransitionOutside_no_stop(state, td) ==
    Arm(state, Out(td, << >>))

\* (state, PointerOutsideViewport)
TransitionOutside(state, td) ==
    Arm(state, auto_panning_stop(td))

\* The test of Confirm | Abort, inverted
KeepsPath_inverted(td) == Len(td.points) < 2

\* The clearing of the session that leaves layer set
ClearSession_keeps_layer(td) ==
    [td EXCEPT !.preview_point = None, !.preview_segment = None, !.points = << >>]

\* The clearing of the session that leaves committed_points filled
ClearSession_keeps_points(td) ==
    [td EXCEPT !.layer = None, !.preview_point = None, !.preview_segment = None]

\* (Drawing, Confirm | Abort): the test that keeps the drawn path
KeepsPath(td) == Len(td.points) >= 2

\* (Drawing, Confirm | Abort): the session fields cleared on the way to Ready
ClearSession(td) ==
    [td EXCEPT !.layer = None,
               !.preview_point = None,
               !.preview_segment = None,
               !.points = << >>]

\* Confirm | Abort that commits without retracting the preview
TransitionConfirmAbort_no_retract(td) ==
    LET ended == IF KeepsPath(td)
                 THEN Out(td, << EndTransaction >>)
                 ELSE Out(td, << AbortTransaction >>)
    IN  Arm("Ready", Out(ClearSession(ended.tool_data), ended.responses))

\* (Drawing, Confirm | Abort)
TransitionConfirmAbort(td) ==
    LET ended == IF KeepsPath(td)
                 THEN LET deleted == delete_preview(td)
                      IN  Out(deleted.tool_data, deleted.responses \o << EndTransaction >>)
                 ELSE Out(td, << AbortTransaction >>)
    IN  Arm("Ready", Out(ClearSession(ended.tool_data), ended.responses))

\* (_, WorkingColorChanged)
TransitionWorkingColorChanged(state, td) ==
    Arm(state, Out(td, << UpdateOptionsWorkingColors >>))

\* The input of a handler: the pointer, the document's transform and the ids
\* the generators return next.
Input(mouse, offset, layer, next_point_id, segment_id) ==
    [ mouse |-> mouse, offset |-> offset, layer |-> layer,
      next_point_id |-> next_point_id, segment_id |-> segment_id ]

\* transition whose Confirm | Abort arm does not look at the state
transition_confirm_any_state(self, event, td, opts, in) ==
    CASE event = "CanvasTransformed" -> Arm(self, Out(td, << >>))
      [] event = "Overlays" -> Arm(self, Out(td, << >>))
      [] self = "Ready" /\ event = "DragStart" ->
            TransitionDragStart(td, opts, in.layer)
      [] self = "Drawing" /\ event = "DragStop" ->
            TransitionDragStop(td, in.mouse, in.offset, in.next_point_id, in.segment_id)
      [] self = "Drawing" /\ event = "PointerMove" ->
            TransitionPointerMove(td, in.mouse, in.offset, in.next_point_id, in.segment_id)
      [] self = "Drawing" /\ event = "PointerOutsideViewport" ->
            TransitionOutsideDrawing(td, in.mouse)
      [] self # "Drawing" /\ event = "PointerOutsideViewport" ->
            TransitionOutside(self, td)
      [] event \in {"Confirm", "Abort"} ->
            TransitionConfirmAbort(td)
      [] event = "WorkingColorChanged" ->
            TransitionWorkingColorChanged(self, td)
      [] OTHER -> Arm(self, Out(td, << >>))

transition(self, event, td, opts, in) ==
    CASE event = "CanvasTransformed" -> Arm(self, Out(td, << >>))
      [] event = "Overlays" -> Arm(self, Out(td, << >>))
      [] self = "Ready" /\ event = "DragStart" ->
            TransitionDragStart(td, opts, in.layer)
      [] self = "Drawing" /\ event = "DragStop" ->
            TransitionDragStop(td, in.mouse, in.offset, in.next_point_id, in.segment_id)
      [] self = "Drawing" /\ event = "PointerMove" ->
            TransitionPointerMove(td, in.mouse, in.offset, in.next_point_id, in.segment_id)
      [] self = "Drawing" /\ event = "PointerOutsideViewport" ->
            TransitionOutsideDrawing(td, in.mouse)
      [] self # "Drawing" /\ event = "PointerOutsideViewport" ->
            TransitionOutside(self, td)
      [] self = "Drawing" /\ event \in {"Confirm", "Abort"} ->
            TransitionConfirmAbort(td)
      [] event = "WorkingColorChanged" ->
            TransitionWorkingColorChanged(self, td)
      [] OTHER -> Arm(self, Out(td, << >>))

\* Fsm::process_event: the transition, then update_hints and update_cursor
\* when the state changed.
process_event(self, event, td, opts, in) ==
    LET r == transition(self, event, td, opts, in)
    IN  IF r.state # self
        THEN [r EXCEPT !.responses = @ \o << UpdateInputHints(r.state), UpdateMouseCursor >>]
        ELSE r

(* ------------------------------- actions ------------------------------- *)

Init ==
    /\ fsm_state = "Ready"
    /\ tool_data = DefaultToolData
    /\ options = DefaultOptions
    /\ document = EmptyDocument
    /\ responses = << >>
    /\ untracked = FALSE
    /\ nextPointId = 1
    /\ nextSegmentId = 1
    /\ nextLayerId = 1

\* SplineTool::process_message for every message but UpdateOptions: the FSM
\* handles the event, and the document applies the responses in order.
Handle(event, mouse) ==
    \E r \in {process_event(fsm_state, event, tool_data, options,
                            Input(mouse, CanvasOffset, nextLayerId, nextPointId,
                                  nextSegmentId))} :
        /\ fsm_state' = r.state
        /\ tool_data' = r.tool_data
        /\ responses' = r.responses
        /\ document' = ApplyAll(document, r.responses)
        /\ untracked' = Untracked(document, r.responses)
        /\ nextLayerId' = nextLayerId + Count(r.responses, "NewCustomLayer")
        /\ nextPointId' = nextPointId + Count(r.responses, "InsertPoint")
        /\ nextSegmentId' = nextSegmentId + Count(r.responses, "InsertSegment")
        /\ UNCHANGED options

\* The events that read no pointer position are handled with the pointer at rest.
AtRest == << 0, 0 >>

\* A layer id is left for a new gesture.
LayerIdLeft == fsm_state = "Ready" => nextLayerId <= MaxLayers

\* A point id is left for update_spline.
PointIdLeft == fsm_state = "Drawing" => nextPointId <= MaxIds

DragStart ==
    /\ LayerIdLeft
    /\ Handle("DragStart", AtRest)

DragStop ==
    \E mouse \in MousePositions :
        /\ PointIdLeft
        /\ Handle("DragStop", mouse)

PointerMove ==
    \E mouse \in MousePositions :
        /\ PointIdLeft
        /\ Handle("PointerMove", mouse)

\* PointerOutsideViewport is sent only by the animation-frame broadcast the
\* tool subscribed to (lines 273-274): it arrives while a schedule is pending.
PointerOutsideViewport ==
    \E mouse \in MousePositions :
        /\ tool_data.auto_panning
        /\ Handle("PointerOutsideViewport", mouse)

Confirm ==
    /\ fsm_state \in FsmStates
    /\ Handle("Confirm", AtRest)

Abort ==
    /\ fsm_state \in FsmStates
    /\ Handle("Abort", AtRest)

CanvasTransformed ==
    /\ fsm_state \in FsmStates
    /\ Handle("CanvasTransformed", AtRest)

Overlays ==
    /\ fsm_state \in FsmStates
    /\ Handle("Overlays", AtRest)

WorkingColorChanged ==
    /\ fsm_state \in FsmStates
    /\ Handle("WorkingColorChanged", AtRest)

Undo ==
    /\ fsm_state \in FsmStates
    /\ Handle("Undo", AtRest)

\* SplineOptionsUpdate::LineWeight and SplineOptionsUpdate::WorkingColors
ApplyOptionsUpdate(opts, action) ==
    CASE action.kind = "LineWeight" -> [opts EXCEPT !.line_weight = action.value]
      [] OTHER -> opts

OptionsUpdates ==
    [kind : {"LineWeight"}, value : LineWeights]
        \cup [kind : {"WorkingColors"}, value : WorkingColors]

\* The UpdateOptions branch that also applies a new line weight to the
\* session under way
update_options_sets_weight(td, opts, action) ==
    [ tool_data |-> IF action.kind = "LineWeight"
                    THEN [td EXCEPT !.weight = action.value]
                    ELSE td,
      options   |-> ApplyOptionsUpdate(opts, action),
      responses |-> << SendLayout >> ]

\* The UpdateOptions branch of process_message: the options are updated and
\* the options panel is sent again; the session is not touched.
update_options(td, opts, action) ==
    [ tool_data |-> td,
      options   |-> ApplyOptionsUpdate(opts, action),
      responses |-> << SendLayout >> ]

\* SplineTool::process_message for UpdateOptions
UpdateOptions ==
    \E action \in OptionsUpdates :
        \E r \in {update_options(tool_data, options, action)} :
            /\ options' = r.options
            /\ tool_data' = r.tool_data
            /\ responses' = r.responses
            /\ untracked' = FALSE
            /\ UNCHANGED << fsm_state, document,
                            nextPointId, nextSegmentId, nextLayerId >>

Next ==
    \/ DragStart
    \/ DragStop
    \/ PointerMove
    \/ PointerOutsideViewport
    \/ Confirm
    \/ Abort
    \/ CanvasTransformed
    \/ Overlays
    \/ WorkingColorChanged
    \/ Undo
    \/ UpdateOptions

Spec == Init /\ [][Next]_vars

(* ------------------------- vocabulary of the claims -------------------- *)

\* The ids of the committed points of a session.
CommittedIds(td) == {td.points[i].id : i \in 1 .. Len(td.points)}

\* The ids of the points the document holds for a layer.
LayerPointIds(doc, layer) == {p.id : p \in {q \in doc.points : q.layer = layer}}

\* The segments the document holds for a layer.
LayerSegments(doc, layer) == {g \in doc.segments : g.layer = layer}

\* The points of the session's layer in the document that are not committed.
DocPreviewPoints(doc, td) == LayerPointIds(doc, td.layer[1]) \ CommittedIds(td)

\* The segments of the session's layer in the document with an end that is
\* not a committed point.
DocPreviewSegments(doc, td) ==
    {g.id : g \in {h \in LayerSegments(doc, td.layer[1]) :
                      \E i \in 1 .. 2 : h.points[i] \notin CommittedIds(td)}}

\* Nothing of the layer is in the document.
LayerGone(doc, layer) ==
    /\ layer \notin doc.layers
    /\ LayerPointIds(doc, layer) = {}
    /\ LayerSegments(doc, layer) = {}

\* The positions in the messages of the messages of the kinds.
Positions(msgs, ops) == {i \in 1 .. Len(msgs) : msgs[i].op \in ops}

\* Every remove is emitted before every insert.
RemovesBeforeInserts(msgs) ==
    \A i \in Positions(msgs, {"RemovePoint", "RemoveSegment"}) :
        \A j \in Positions(msgs, {"InsertPoint", "InsertSegment"}) : i < j

\* The remove messages for the preview the session records.
PreviewRemoves(td) ==
    (IF td.preview_point # None
     THEN << RemovePoint(td.layer[1], td.preview_point[1]) >> ELSE << >>)
    \o (IF td.preview_segment # None
        THEN << RemoveSegment(td.layer[1], td.preview_segment[1]) >> ELSE << >>)

\* The session holds no layer, no preview and no committed point.
SessionEmpty(td) ==
    /\ td.layer = None
    /\ td.preview_point = None
    /\ td.preview_segment = None
    /\ td.points = << >>

(* --------------------------------- C1 ---------------------------------- *)

\* C1: a gesture that ends (Confirm or Abort in Drawing) with exactly one
\* committed point is fully aborted: nothing it created (its layer, the
\* committed point, a preview) remains in the document, the state is Ready and
\* committed_points is empty.
C1_OnePointGestureDiscarded ==
    [][ (fsm_state = "Drawing" /\ Len(tool_data.points) = 1 /\ (Confirm \/ Abort))
            => /\ fsm_state' = "Ready"
               /\ tool_data'.points = << >>
               /\ LayerGone(document', tool_data.layer[1]) ]_vars

(* --------------------------------- C2 ---------------------------------- *)

\* C2: every InsertPoint, InsertSegment, RemovePoint and RemoveSegment is
\* emitted while a transaction opened by the gesture's StartTransaction is
\* still open.
C2_VectorEditsInsideTransaction == ~untracked

(* --------------------------------- C3 ---------------------------------- *)

\* C3 as stated: preview_point and preview_segment are both absent or both
\* present in every reachable state.
C3_PreviewBothOrNeither ==
    (tool_data.preview_point = None) <=> (tool_data.preview_segment = None)

\* C3 as amended: preview_segment is present only with preview_point, and
\* with preview_point present preview_segment is present exactly when
\* committed_points is not empty.
C3_PreviewSegmentFollowsCommitted ==
    /\ tool_data.preview_segment # None => tool_data.preview_point # None
    /\ tool_data.preview_point # None =>
          ((tool_data.preview_segment # None) <=> (tool_data.points # << >>))

\* A PointerMove arrived in Drawing before any point was committed.
C3_Witness ==
    /\ fsm_state = "Drawing"
    /\ tool_data.points = << >>
    /\ tool_data.preview_point # None
    /\ tool_data.preview_segment = None

(* --------------------------------- C4 ---------------------------------- *)

\* C4: after every PointerMove handled in Drawing exactly one preview point
\* and at most one preview segment exist, in the session and in the document;
\* the previous preview's removes are emitted before the next inserts; and
\* committed_points is as it was.
C4_PointerMoveKeepsOnePreview ==
    [][ (fsm_state = "Drawing" /\ PointerMove)
            => /\ tool_data'.preview_point # None
               /\ DocPreviewPoints(document', tool_data') = {tool_data'.preview_point[1]}
               /\ DocPreviewSegments(document', tool_data')
                     = {tool_data'.preview_segment[i] :
                            i \in 1 .. Len(tool_data'.preview_segment)}
               /\ SubSeq(responses', 1, Len(PreviewRemoves(tool_data)))
                     = PreviewRemoves(tool_data)
               /\ RemovesBeforeInserts(responses')
               /\ tool_data'.points = tool_data.points ]_vars

\* A PointerMove replaced the preview point and segment of an earlier one.
C4_Witness ==
    /\ fsm_state = "Drawing"
    /\ tool_data.preview_point # None
    /\ tool_data.preview_segment # None
    /\ Count(responses, "RemovePoint") = 1
    /\ Count(responses, "RemoveSegment") = 1
    /\ Count(responses, "InsertSegment") = 1

(* --------------------------------- C5 ---------------------------------- *)

\* C5: after every DragStop handled in Drawing committed_points is one longer
\* than before and no preview remains: the preview fields are empty, the
\* removes of the recorded preview are emitted before the insert, and the
\* document holds no preview point or segment.
C5_DragStopCommitsOnePoint ==
    [][ (fsm_state = "Drawing" /\ DragStop)
            => /\ Len(tool_data'.points) = Len(tool_data.points) + 1
               /\ SubSeq(tool_data'.points, 1, Len(tool_data.points)) = tool_data.points
               /\ tool_data'.preview_point = None
               /\ tool_data'.preview_segment = None
               /\ SubSeq(responses', 2, 1 + Len(PreviewRemoves(tool_data)))
                     = PreviewRemoves(tool_data)
               /\ RemovesBeforeInserts(responses')
               /\ DocPreviewPoints(document', tool_data') = {}
               /\ DocPreviewSegments(document', tool_data') = {} ]_vars

\* A DragStop committed a second point, retracting a preview first.
C5_Witness ==
    /\ fsm_state = "Drawing"
    /\ Len(tool_data.points) = 2
    /\ responses # << >>
    /\ responses[1] = EndTransaction
    /\ Count(responses, "RemovePoint") = 1
    /\ Count(responses, "RemoveSegment") = 1
    /\ Count(responses, "InsertPoint") = 1

(* --------------------------------- C6 ---------------------------------- *)

\* C6: near-duplicate points are suppressed at DragStop: no two consecutive
\* entries of committed_points lie closer to each other than the drag
\* threshold.
C6_NoNearDuplicateCommitted ==
    \A i \in 1 .. Len(tool_data.points) - 1 :
        DistanceSquared(tool_data.points[i].pos, tool_data.points[i + 1].pos)
            >= DRAG_THRESHOLD * DRAG_THRESHOLD

(* --------------------------------- C7 ---------------------------------- *)

\* C7: layer is set if and only if the machine is in Drawing, so Drawing is
\* never entered or kept with layer absent.
C7_LayerIffDrawing == (tool_data.layer # None) <=> (fsm_state = "Drawing")

\* A gesture ended: the machine is back in Ready with layer cleared.
C7_Witness ==
    /\ fsm_state = "Ready"
    /\ tool_data.layer = None
    /\ nextLayerId > 1
    /\ Count(responses, "UpdateInputHints") = 1

(* --------------------------------- C8 ---------------------------------- *)

\* C8: Confirm or Abort in Drawing with two or more committed points emits
\* the removes of the recorded preview, then EndTransaction and never
\* AbortTransaction, empties the session and ends in Ready; the document then
\* holds exactly the committed points for the layer and no preview segment.
C8_ConfirmKeepsCommittedPath ==
    [][ (fsm_state = "Drawing" /\ Len(tool_data.points) >= 2 /\ (Confirm \/ Abort))
            => /\ SubSeq(responses', 1, Len(PreviewRemoves(tool_data)) + 1)
                     = PreviewRemoves(tool_data) \o << EndTransaction >>
               /\ Count(responses', "AbortTransaction") = 0
               /\ Count(responses', "RemovePoint") + Count(responses', "RemoveSegment")
                     = Len(PreviewRemoves(tool_data))
               /\ SessionEmpty(tool_data')
               /\ fsm_state' = "Ready"
               /\ tool_data.layer[1] \in document'.layers
               /\ LayerPointIds(document', tool_data.layer[1]) = CommittedIds(tool_data)
               /\ DocPreviewSegments(document', tool_data) = {} ]_vars

\* A gesture with two committed points and a preview was confirmed.
C8_Witness ==
    /\ fsm_state = "Ready"
    /\ Count(responses, "RemovePoint") = 1
    /\ Count(responses, "RemoveSegment") = 1
    /\ Count(responses, "EndTransaction") = 1
    /\ Cardinality(document.points) = 2

(* --------------------------------- C9 ---------------------------------- *)

\* C9: Confirm or Abort in Drawing with no committed point emits
\* AbortTransaction while the transaction opened at DragStart is still open,
\* so the layer and any preview point are discarded, and ends in Ready with
\* an empty session.
C9_EmptyGestureAborted ==
    [][ (fsm_state = "Drawing" /\ tool_data.points = << >> /\ (Confirm \/ Abort))
            => /\ document.open
               /\ tool_data.layer[1] \in document.layers
               /\ responses'[1] = AbortTransaction
               /\ Count(responses', "EndTransaction") = 0
               /\ ~document'.open
               /\ LayerGone(document', tool_data.layer[1])
               /\ fsm_state' = "Ready"
               /\ SessionEmpty(tool_data') ]_vars

\* A gesture with a preview point and no committed point was aborted.
C9_Witness ==
    /\ fsm_state = "Ready"
    /\ responses # << >>
    /\ responses[1] = AbortTransaction
    /\ nextLayerId = 2
    /\ nextPointId = 2
    /\ document.layers = {}
    /\ document.points = {}

(* --------------------------------- C10 --------------------------------- *)

\* C10: after every DragStart handled in Ready, whatever gestures came
\* before, the state is Drawing, layer is set, committed_points is empty and
\* no preview is recorded.
C10_DragStartOpensEmptySession ==
    [][ (fsm_state = "Ready" /\ DragStart)
            => /\ fsm_state' = "Drawing"
               /\ tool_data'.layer = Some(nextLayerId)
               /\ tool_data'.points = << >>
               /\ tool_data'.preview_point = None
               /\ tool_data'.preview_segment = None ]_vars

\* A second gesture was started after one that had committed points.
C10_Witness ==
    /\ fsm_state = "Drawing"
    /\ responses # << >>
    /\ responses[1] = StartTransaction
    /\ nextLayerId = 3
    /\ nextPointId > 2
    /\ tool_data.points = << >>

(* --------------------------------- C11 --------------------------------- *)

\* The session without the auto-panning schedule.
SessionFields(td) ==
    [ points          |-> td.points,
      next_point      |-> td.next_point,
      preview_point   |-> td.preview_point,
      preview_segment |-> td.preview_segment,
      weight          |-> td.weight,
      layer           |-> td.layer ]

\* C11 as stated: the auto-pan schedule is cancelled by the transition that
\* leaves Drawing, so no re-injection is scheduled while the state is Ready.
C11_NoScheduleInReady == fsm_state = "Ready" => ~tool_data.auto_panning

\* C11 as amended: Confirm and Abort in Drawing leave the schedule as it was,
\* and the first PointerOutsideViewport handled in Ready cancels it, emitting
\* the unsubscription.
C11_ScheduleCancelledInReady ==
    [][ /\ (fsm_state = "Drawing" /\ (Confirm \/ Abort))
              => tool_data'.auto_panning = tool_data.auto_panning
        /\ (fsm_state = "Ready" /\ PointerOutsideViewport)
              => /\ ~tool_data'.auto_panning
                 /\ fsm_state' = "Ready"
                 /\ Count(responses', "UnsubscribeEvent") = 1 ]_vars

\* A gesture ended while a schedule was pending, and the re-injected
\* PointerOutsideViewport then cancelled it.
C11_Witness ==
    /\ fsm_state = "Ready"
    /\ ~tool_data.auto_panning
    /\ responses = << UnsubscribeEvent >>

(* --------------------------------- C12 --------------------------------- *)

\* C12: PointerOutsideViewport in Drawing leaves the re-injection scheduled,
\* keeps the state Drawing and changes neither committed_points nor the
\* preview fields; in Ready it leaves the state and the session unchanged,
\* emits no document command and cancels the pending schedule.
C12_OutsideViewportPansOrStops ==
    [][ /\ (fsm_state = "Drawing" /\ PointerOutsideViewport)
              => /\ tool_data'.auto_panning
                 /\ fsm_state' = "Drawing"
                 /\ SessionFields(tool_data') = SessionFields(tool_data)
                 /\ document' = document
        /\ (fsm_state = "Ready" /\ PointerOutsideViewport)
              => /\ fsm_state' = "Ready"
                 /\ SessionFields(tool_data') = SessionFields(tool_data)
                 /\ document' = document
                 /\ responses' = << UnsubscribeEvent >>
                 /\ ~tool_data'.auto_panning ]_vars

\* A PointerOutsideViewport in Drawing panned the canvas during a gesture
\* with a committed point and a preview.
C12_Witness ==
    /\ fsm_state = "Drawing"
    /\ responses = << CanvasPan >>
    /\ tool_data.auto_panning
    /\ tool_data.points # << >>
    /\ tool_data.preview_point # None

(* --------------------------------- C13 --------------------------------- *)

\* The sessions delete_preview is applied to: every combination of a layer,
\* a preview point and a preview segment, present or absent.
OptionalIds(n) == {None} \cup {Some(i) : i \in 1..n}

SessionInputs ==
    [ points          : {<< >>, << [id |-> 1, pos |-> AtRest] >>},
      next_point      : {AtRest},
      preview_point   : OptionalIds(MaxIds),
      preview_segment : OptionalIds(MaxIds),
      weight          : LineWeights,
      layer           : OptionalIds(MaxLayers),
      auto_panning    : BOOLEAN ]

InitRetract ==
    /\ fsm_state \in FsmStates
    /\ tool_data \in SessionInputs
    /\ options = DefaultOptions
    /\ document = EmptyDocument
    /\ responses = << >>
    /\ untracked = FALSE
    /\ nextPointId = 1
    /\ nextSegmentId = 1
    /\ nextLayerId = 1

\* One call of delete_preview on the session.
Retract ==
    \E r \in {delete_preview(tool_data)} :
        /\ tool_data' = r.tool_data
        /\ responses' = r.responses
        /\ UNCHANGED << fsm_state, options, document, untracked,
                        nextPointId, nextSegmentId, nextLayerId >>

SpecRetract == InitRetract /\ [][Retract]_vars

\* C13: after a call of delete_preview, a second call with no insert in
\* between emits no RemovePoint or RemoveSegment and leaves the session
\* unchanged; a call while the layer is absent emits nothing and changes
\* nothing.
C13_RetractionIdempotent ==
    [][ Retract =>
          /\ delete_preview(tool_data') = Out(tool_data', << >>)
          /\ tool_data.layer = None
                => (tool_data' = tool_data /\ responses' = << >>) ]_vars

\* A call of delete_preview has removed a preview point and a preview segment.
C13_Witness ==
    /\ Count(responses, "RemovePoint") = 1
    /\ Count(responses, "RemoveSegment") = 1
    /\ tool_data.preview_point = None
    /\ tool_data.preview_segment = None
    /\ tool_data.layer # None

(* --------------------------------- C14 --------------------------------- *)

\* C14: DragStart in Drawing, DragStop, PointerMove, Confirm and Abort in
\* Ready, and Undo and CanvasTransformed in either state, return the same
\* state, leave every session field unchanged and emit no outbound command.
C14_UnlistedPairsAreNoOps ==
    [][ ( \/ fsm_state = "Drawing" /\ DragStart
          \/ fsm_state = "Ready" /\ (DragStop \/ PointerMove \/ Confirm \/ Abort)
          \/ Undo
          \/ CanvasTransformed )
        => /\ fsm_state' = fsm_state
           /\ tool_data' = tool_data
           /\ responses' = << >>
           /\ document' = document ]_vars

\* An unlisted event was handled in the middle of a gesture: nothing was
\* emitted (every listed event of a gesture without a pan schedule emits).
C14_Witness ==
    /\ fsm_state = "Drawing"
    /\ responses = << >>
    /\ tool_data.points # << >>
    /\ ~tool_data.auto_panning

(* --------------------------------- C15 --------------------------------- *)

\* The pending position after a DragStop in Drawing with the pointer at
\* mouse, when the pointer is adopted exactly if adopts holds.
PendingAfterDragStop(mouse, adopts) ==
    IF adopts THEN ToLayerSpace(CanvasOffset, mouse) ELSE tool_data.next_point

\* The squared distance of the pointer from the last committed point.
FromLastCommitted(mouse) ==
    DistanceSquared(tool_data.points[Len(tool_data.points)].pos,
                    ToLayerSpace(CanvasOffset, mouse))

\* C15 as stated: at DragStop in Drawing the pointer's layer-local position
\* becomes the pending position exactly when no point is committed or its
\* distance from the last committed point is at least the drag threshold.
C15_AdoptedAtThreshold ==
    [][ fsm_state = "Drawing" =>
          \A mouse \in MousePositions :
              (PointIdLeft /\ Handle("DragStop", mouse)) =>
                  tool_data'.next_point =
                      PendingAfterDragStop(mouse,
                          \/ tool_data.points = << >>
                          \/ FromLastCommitted(mouse) >= DRAG_THRESHOLD * DRAG_THRESHOLD) ]_vars

\* C15 as amended: the position is adopted exactly when no point is committed
\* or its distance from the last committed point is strictly greater than the
\* drag threshold; at the threshold the pending position keeps its value.
C15_AdoptedBeyondThreshold ==
    [][ fsm_state = "Drawing" =>
          \A mouse \in MousePositions :
              (PointIdLeft /\ Handle("DragStop", mouse)) =>
                  tool_data'.next_point =
                      PendingAfterDragStop(mouse,
                          \/ tool_data.points = << >>
                          \/ FromLastCommitted(mouse) > DRAG_THRESHOLD * DRAG_THRESHOLD) ]_vars

\* Two DragStops with no PointerMove in between committed two points further
\* apart than the threshold: the second pointer position was adopted.
C15_Witness ==
    /\ fsm_state = "Drawing"
    /\ Len(tool_data.points) = 2
    /\ responses # << >>
    /\ responses[1] = EndTransaction
    /\ Count(responses, "RemovePoint") = 0
    /\ DistanceSquared(tool_data.points[1].pos, tool_data.points[2].pos)
           > DRAG_THRESHOLD * DRAG_THRESHOLD
    /\ tool_data.next_point = tool_data.points[2].pos

(* --------------------------------- C16 --------------------------------- *)

\* C16: whenever preview_segment is present, the segment it names was
\* inserted with the endpoint pair [id of the last committed point,
\* preview_point], in that order, and the two ids are distinct.
C16_PreviewSegmentEndpoints ==
    tool_data.preview_segment # None =>
        /\ tool_data.points # << >>
        /\ tool_data.preview_point # None
        /\ tool_data.layer # None
        /\ \E g \in document.segments :
              /\ g.id = tool_data.preview_segment[1]
              /\ g.layer = tool_data.layer[1]
              /\ g.points = << tool_data.points[Len(tool_data.points)].id,
                               tool_data.preview_point[1] >>
              /\ g.points[1] # g.points[2]

\* A preview segment hangs off the second committed point.
C16_Witness ==
    /\ tool_data.preview_segment # None
    /\ Len(tool_data.points) = 2

(* --------------------------------- C17 --------------------------------- *)

\* s extends r by exactly one entry at the end.
AppendsOne(r, s) ==
    /\ Len(s) = Len(r) + 1
    /\ SubSeq(s, 1, Len(r)) = r

\* The segment of the document with the given id joins two committed points.
JoinsCommitted(doc, td, id) ==
    \E g \in doc.segments :
        /\ g.id = id
        /\ g.points[1] \in CommittedIds(td)
        /\ g.points[2] \in CommittedIds(td)

\* C17: committed_points changes only by one entry appended at the end, or
\* by being emptied when Confirm or Abort ends the gesture; no RemovePoint
\* names a committed point id and no RemoveSegment names a segment joining
\* two committed points.
C17_CommittedPointsPermanent ==
    [][ /\ \/ tool_data'.points = tool_data.points
           \/ AppendsOne(tool_data.points, tool_data'.points)
           \/ /\ tool_data'.points = << >>
              /\ fsm_state = "Drawing"
              /\ fsm_state' = "Ready"
              /\ (Confirm \/ Abort)
        /\ \A i \in Positions(responses', {"RemovePoint"}) :
              responses'[i].id \notin CommittedIds(tool_data)
        /\ \A i \in Positions(responses', {"RemoveSegment"}) :
              ~JoinsCommitted(document, tool_data, responses'[i].id) ]_vars

\* A preview point and segment hanging off a committed point were retracted
\* and replaced while the committed point stayed.
C17_Witness ==
    /\ fsm_state = "Drawing"
    /\ Len(tool_data.points) = 1
    /\ tool_data.preview_segment # None
    /\ Count(responses, "RemovePoint") = 1
    /\ Count(responses, "RemoveSegment") = 1
    /\ tool_data.points[1].id \in LayerPointIds(document, tool_data.layer[1])

(* --------------------------------- C18 --------------------------------- *)

\* C18: a step taken in Drawing ends in Ready exactly when it is a Confirm or
\* an Abort: every other event handled in Drawing leaves the state Drawing,
\* and Confirm or Abort in Drawing always ends in Ready.
C18_OnlyConfirmAbortLeaveDrawing ==
    [][ fsm_state = "Drawing" =>
          (fsm_state' = "Ready" <=> (Confirm \/ Abort)) ]_vars

\* A gesture with a committed path was ended by Confirm or Abort with no
\* preview standing.
C18_Witness ==
    /\ fsm_state = "Ready"
    /\ responses = << EndTransaction, UpdateInputHints("Ready"), UpdateMouseCursor >>
    /\ document.points # {}

(* --------------------------------- C19 --------------------------------- *)

\* C19: an UpdateOptions event changes only the options and asks for the
\* options panel to be sent again, and WorkingColorChanged only sends the
\* WorkingColors update to the tool: both leave the FSM state, every session
\* field and the document unchanged; the session's weight changes only at
\* DragStart in Ready, where it takes the options' line weight.
C19_WeightCapturedAtDragStart ==
    [][ /\ UpdateOptions
              => /\ fsm_state' = fsm_state
                 /\ tool_data' = tool_data
                 /\ document' = document
                 /\ responses' = << SendLayout >>
        /\ WorkingColorChanged
              => /\ fsm_state' = fsm_state
                 /\ tool_data' = tool_data
                 /\ document' = document
                 /\ options' = options
                 /\ responses' = << UpdateOptionsWorkingColors >>
        /\ tool_data'.weight # tool_data.weight
              => /\ fsm_state = "Ready"
                 /\ fsm_state' = "Drawing"
                 /\ tool_data'.weight = options.line_weight ]_vars

\* The line weight option was changed during a gesture: the session keeps the
\* weight captured at DragStart.
C19_Witness ==
    /\ fsm_state = "Drawing"
    /\ responses = << SendLayout >>
    /\ tool_data.points # << >>
    /\ tool_data.weight # options.line_weight

(* --------------------------------- C20 --------------------------------- *)

\* The endpoint pairs of the segments between consecutive committed points.
CommittedPairs(td) ==
    {<< td.points[i].id, td.points[i + 1].id >> : i \in 1 .. Len(td.points) - 1}

\* The ids of the session: the committed points and the preview point.
SessionPointIds(td) ==
    CommittedIds(td) \cup (IF td.preview_point = None THEN {} ELSE {td.preview_point[1]})

\* The segments the session accounts for: one per consecutive committed pair
\* and the preview segment.
SessionSegmentCount(td) ==
    (IF td.points = << >> THEN 0 ELSE Len(td.points) - 1)
        + (IF td.preview_segment = None THEN 0 ELSE 1)

\* C20: in Drawing, the document obtained by applying the emitted commands in
\* order holds, for the session's layer, exactly the committed points and the
\* preview point if any, and exactly one segment between each pair of
\* consecutive committed points and the preview segment if any.
C20_DocumentRefinesSession ==
    fsm_state = "Drawing" =>
        /\ tool_data.layer # None
        /\ tool_data.layer[1] \in document.layers
        /\ LayerPointIds(document, tool_data.layer[1]) = SessionPointIds(tool_data)
        /\ Cardinality({p \in document.points : p.layer = tool_data.layer[1]})
               = Len(tool_data.points)
                   + (IF tool_data.preview_point = None THEN 0 ELSE 1)
        /\ {g.points : g \in {h \in LayerSegments(document, tool_data.layer[1]) :
                                 tool_data.preview_segment # Some(h.id)}}
               = CommittedPairs(tool_data)
        /\ tool_data.preview_segment # None
               => \E g \in LayerSegments(document, tool_data.layer[1]) :
                      g.id = tool_data.preview_segment[1]
        /\ Cardinality(LayerSegments(document, tool_data.layer[1]))
               = SessionSegmentCount(tool_data)

\* Two committed points joined by a segment, with a preview point and a
\* preview segment after them.
C20_Witness ==
    /\ fsm_state = "Drawing"
    /\ Len(tool_data.points) = 2
    /\ tool_data.preview_point # None
    /\ tool_data.preview_segment # None
    /\ Cardinality(document.segments) >= 2

====
